---- MODULE Spec2Model ----
(***************************************************************************)
(* DealPrice-Analyser: the deal scanner (src/agents/scanner_agent.py) and  *)
(* the price estimator (src/agents/frontier_agent.py).                     *)
(*                                                                         *)
(* Four specifications over one set of variables:                          *)
(*   Spec          one curation pass of ScannerAgent.scan after another    *)
(*   SpecFetch     ScannerAgent.fetch_deals on its own, on larger inputs   *)
(*   SpecGetPrice  FrontierAgent.get_price on every bounded text           *)
(*   SpecPrice     one invocation of FrontierAgent.price after another     *)
(* A specification leaves the variables of the others at their initial     *)
(* values.                                                                 *)
(***************************************************************************)
EXTENDS Integers, Sequences, FiniteSets, TLC

VARIABLES
    memory,      \* scan: the caller's memory, a list of opportunities
    scraped,     \* scan: what ScrapedDeal.fetch returned in this pass
    newDeals,    \* scan: the local `scraped`, the result of fetch_deals
    reply,       \* scan: what the generative model answered in this pass
    scanPc,      \* scan: "idle", "fetched" (about to call the model), "done"
    scanResult,  \* scan: what the pass gave its caller
    modelCalls,  \* scan: generate_content calls issued in this pass
    fMemory,     \* fetch_deals: argument memory
    fScraped,    \* fetch_deals: what ScrapedDeal.fetch returns
    fResult,     \* fetch_deals: the returned list
    fPc,         \* fetch_deals: "ready", "returned"
    gpText,      \* get_price: argument text
    gpResult,    \* get_price: the returned float
    gpPc,        \* get_price: "ready", "returned"
    pricePc,     \* price: "idle", "prompted" (about to call the model), "done"
    priceSimilarsOk, \* price: whether find_similars returned in this invocation
    priceReply,  \* price: what the generative model answered
    priceResult, \* price: what the invocation gave its caller
    priceCalls   \* price: generate_content calls issued in this invocation

scanVars  == <<memory, scraped, newDeals, reply, scanPc, scanResult, modelCalls>>
fetchVars == <<fMemory, fScraped, fResult, fPc>>
gpVars    == <<gpText, gpResult, gpPc>>
priceVars == <<pricePc, priceSimilarsOk, priceReply, priceResult, priceCalls>>
vars      == <<scanVars, fetchVars, gpVars, priceVars>>

(***************************************************************************)
(* Bounds of the model.                                                    *)
(***************************************************************************)
MaxMemory == 2        \* entries of memory in a curation pass
MaxScraped == 2       \* scraped candidates in a curation pass
MaxVaried == 2        \* leading deals of a model reply, each chosen freely
MaxPad == 4           \* further deals of a model reply, copies of one deal
MaxFetchMemory == 2   \* entries of memory when fetch_deals is taken alone
MaxFetchScraped == 4  \* scraped candidates when fetch_deals is taken alone
MaxTextLen == 4       \* characters of a reply text

\* The number of deals a DealSelection holds at most.
MaxDeals == 5

(***************************************************************************)
(* Generic helpers.                                                        *)
(***************************************************************************)
SeqsUpTo(S, n) == UNION {[1..k -> S] : k \in 0..n}

\* Python's `x in lst` on a list.
ListContains(lst, x) == \E i \in DOMAIN lst : lst[i] = x

(***************************************************************************)
(* ScannerAgent: inputs.                                                   *)
(***************************************************************************)
ScanUrls == {"A", "B"}
FetchUrls == {"A", "B", "C", "D"}
Prices == {-5, 0, 10}

\* An entry of memory: an opportunity, read as opp.deal.url.
Opportunity(u) == [deal |-> [url |-> u]]
\* A scraped candidate, read as scrape.url.
ScrapedDeal(u) == [url |-> u]

Memories == SeqsUpTo({Opportunity(u) : u \in ScanUrls}, MaxMemory)
Scrapes == SeqsUpTo({ScrapedDeal(u) : u \in ScanUrls}, MaxScraped)
FetchMemories == SeqsUpTo({Opportunity(u) : u \in FetchUrls}, MaxFetchMemory)
FetchScrapes == SeqsUpTo({ScrapedDeal(u) : u \in FetchUrls}, MaxFetchScraped)

\* A deal of a model reply: whatever price and url the model wrote.
ReplyDeal == [price : Prices, url : ScanUrls]
\* The deals lists of the model replies: up to MaxVaried deals chosen freely,
\* followed by up to MaxPad copies of one deal (so that lists longer than
\* MaxDeals occur).
ReplyDealLists ==
    {head \o [i \in 1..n |-> d] :
        head \in SeqsUpTo(ReplyDeal, MaxVaried), n \in 0..MaxPad, d \in ReplyDeal}

\* What one generate_content call can give: an error of the call, a text that
\* is not JSON, JSON that is no {"deals": [...]} of well-formed deals, or JSON
\* of that shape.
Replies ==
    {[kind |-> k, deals |-> <<>>] : k \in {"call_error", "bad_json", "bad_schema"}}
    \cup {[kind |-> "deals", deals |-> ds] : ds \in ReplyDealLists}

NoReply == [kind |-> "none", deals |-> <<>>]

(***************************************************************************)
(* ScannerAgent.fetch_deals                                                *)
(***************************************************************************)
\* urls = [opp.deal.url for opp in memory]
MemoryUrls(mem) == [i \in DOMAIN mem |-> mem[i].deal.url]

RECURSIVE NotInUrls(_, _)
\* [scrape for scrape in scraped if scrape.url not in urls]
NotInUrls(scr, urls) ==
    IF scr = <<>> THEN <<>>
    ELSE IF ~ListContains(urls, Head(scr).url)
         THEN <<Head(scr)>> \o NotInUrls(Tail(scr), urls)
         ELSE NotInUrls(Tail(scr), urls)

RECURSIVE InUrls(_, _)
InUrls(scr, urls) ==
    IF scr = <<>> THEN <<>>
    ELSE IF ListContains(urls, Head(scr).url)
         THEN <<Head(scr)>> \o InUrls(Tail(scr), urls)
         ELSE InUrls(Tail(scr), urls)

\* fetch_deals with the test of the comprehension inverted.
fetch_deals_known(mem, scr) == InUrls(scr, MemoryUrls(mem))

fetch_deals(mem, scr) == NotInUrls(scr, MemoryUrls(mem))

(***************************************************************************)
(* ScannerAgent.scan                                                       *)
(***************************************************************************)
ResultPending == [kind |-> "pending", deals |-> <<>>]
ResultNone == [kind |-> "None", deals |-> <<>>]
ResultRaised == [kind |-> "raised", deals |-> <<>>]
Selection(ds) == [kind |-> "DealSelection", deals |-> ds]

Ok(ds) == [exc |-> "none", deals |-> ds]
Raise(e) == [exc |-> e, deals |-> <<>>]

\* if not scraped
NoNewDealsNever(sc) == FALSE

NoNewDeals(sc) == sc = <<>>

\* self.model.generate_content(...): returns the response or raises.
generate_content(r) ==
    IF r.kind = "call_error" THEN Raise("ModelCallError") ELSE Ok(r.deals)

\* json.loads(response.text): raises on a text that is not JSON.
json_loads(r) ==
    IF r.kind = "bad_json" THEN Raise("JSONDecodeError") ELSE Ok(r.deals)

\* DealSelection(**parsed) without the limit on the number of deals.
DealSelectionUnbounded(r) ==
    IF r.kind # "deals" THEN Raise("ValidationError") ELSE Ok(r.deals)

\* DealSelection(**parsed): raises unless parsed is {"deals": [...]} of at most
\* MaxDeals well-formed deals.
DealSelection(r) ==
    IF r.kind # "deals" \/ Len(r.deals) > MaxDeals
    THEN Raise("ValidationError")
    ELSE Ok(r.deals)

\* The body of the try statement: the first raise ends it.
TryBody(r) ==
    IF generate_content(r).exc # "none" THEN generate_content(r)
    ELSE IF json_loads(r).exc # "none" THEN json_loads(r)
    ELSE DealSelection(r)

\* An except clause for the errors of the model call only.
ExceptCallError(e) == e = "ModelCallError"

\* except Exception as e
ExceptException(e) == e \in {"ModelCallError", "JSONDecodeError", "ValidationError"}

RECURSIVE NonNegativePrice(_)
NonNegativePrice(ds) ==
    IF ds = <<>> THEN <<>>
    ELSE IF Head(ds).price >= 0
         THEN <<Head(ds)>> \o NonNegativePrice(Tail(ds))
         ELSE NonNegativePrice(Tail(ds))

RECURSIVE PositivePrice(_)
\* [deal for deal in result.deals if deal.price > 0]
PositivePrice(ds) ==
    IF ds = <<>> THEN <<>>
    ELSE IF Head(ds).price > 0
         THEN <<Head(ds)>> \o PositivePrice(Tail(ds))
         ELSE PositivePrice(Tail(ds))

\* scan from the model call to its return, given the model's answer.
ScanAfterFetch(r) ==
    LET t == TryBody(r) IN
    IF t.exc # "none"
    THEN IF ExceptException(t.exc) THEN ResultNone ELSE ResultRaised
    ELSE Selection(PositivePrice(t.deals))

ScanIdle ==
    /\ scraped = <<>>
    /\ newDeals = <<>>
    /\ reply = NoReply
    /\ scanPc = "idle"
    /\ scanResult = ResultPending
    /\ modelCalls = 0

\* The caller invokes scan(memory).
ScanInit ==
    /\ memory \in Memories
    /\ ScanIdle

\* scan, up to the model call: fetch_deals, and the return of None when it
\* gives nothing.
ScanFetch ==
    /\ scanPc = "idle"
    /\ \E s \in Scrapes :
        /\ scraped' = s
        /\ newDeals' = fetch_deals(memory, s)
        /\ IF NoNewDeals(fetch_deals(memory, s))
           THEN scanPc' = "done" /\ scanResult' = ResultNone
           ELSE scanPc' = "fetched" /\ scanResult' = scanResult
    /\ UNCHANGED <<memory, reply, modelCalls>>

\* scan, from the model call on: the try statement, the filter, the return.
ScanGenerate ==
    /\ scanPc = "fetched"
    /\ \E r \in Replies :
        /\ reply' = r
        /\ scanResult' = ScanAfterFetch(r)
    /\ modelCalls' = modelCalls + 1
    /\ scanPc' = "done"
    /\ UNCHANGED <<memory, scraped, newDeals>>

\* The caller invokes scan again, with the memory it then has.
ScanAgain ==
    /\ scanPc = "done"
    /\ memory' \in Memories
    /\ scraped' = <<>>
    /\ newDeals' = <<>>
    /\ reply' = NoReply
    /\ scanPc' = "idle"
    /\ scanResult' = ResultPending
    /\ modelCalls' = 0

(***************************************************************************)
(* fetch_deals on its own.                                                 *)
(***************************************************************************)
FetchIdle ==
    /\ fMemory = <<>>
    /\ fScraped = <<>>
    /\ fResult = <<>>
    /\ fPc = "idle"

FetchInit ==
    /\ fMemory = <<>>
    /\ fScraped = <<>>
    /\ fResult = <<>>
    /\ fPc = "ready"

\* One call fetch_deals(memory), in which ScrapedDeal.fetch returns s.
FetchDeals ==
    /\ fPc = "ready"
    /\ \E m \in FetchMemories, s \in FetchScrapes :
        /\ fMemory' = m
        /\ fScraped' = s
        /\ fResult' = fetch_deals(m, s)
    /\ fPc' = "returned"

FetchAgain ==
    /\ fPc = "returned"
    /\ fMemory' = <<>>
    /\ fScraped' = <<>>
    /\ fResult' = <<>>
    /\ fPc' = "ready"

(***************************************************************************)
(* FrontierAgent.get_price                                                 *)
(***************************************************************************)
\* The characters of a text: the two that get_price removes, the signs, the
\* point, two digits, and a blank for everything else.
Chars == {"$", ",", "-", "+", ".", "0", "5", " "}
Texts == SeqsUpTo(Chars, MaxTextLen)

Digits == {"0", "5"}
Signs == {"-", "+"}
DigitValue(c) == IF c = "5" THEN 5 ELSE 0

\* A float is held as num / 10^scale, with the least scale that writes it:
\* equal numbers of these texts are equal records.
Float(n, sc) == [num |-> n, scale |-> sc]

\* 0.0
Zero == Float(0, 0)

\* str.replace(old, ""), old a single character.
replace(t, old) == SelectSeq(t, LAMBDA c : c # old)

\* The index after the run of digits that starts at j (j itself when t[j] is
\* no digit, or j is past the end): \d* and \d+ are greedy.
DigitRunEnd(t, j) ==
    CHOOSE k \in j..(Len(t) + 1) :
        /\ \A m \in j..(k - 1) : t[m] \in Digits
        /\ k = Len(t) + 1 \/ t[k] \notin Digits

\* [-+]?\d*\.\d+ matched at index i: the index after the match, 0 for none.
\* With the sign given up (on backtracking) the pattern would need a digit or
\* a point at i, where the sign is: no further match.
MatchDecimalAt(t, i) ==
    LET j == IF t[i] \in Signs THEN i + 1 ELSE i
        k == DigitRunEnd(t, j)
    IN IF k + 1 <= Len(t) /\ t[k] = "." /\ t[k + 1] \in Digits
       THEN DigitRunEnd(t, k + 1)
       ELSE 0

\* \d+ matched at index i: the index after the match, 0 for none.
MatchIntegerAt(t, i) == IF t[i] \in Digits THEN DigitRunEnd(t, i) ELSE 0

\* The pattern [-+]?\d*\.\d+|\d+ at index i: the first alternative that
\* matches, the sign being part of the first alternative only.
MatchAt(t, i) ==
    IF MatchDecimalAt(t, i) # 0 THEN MatchDecimalAt(t, i) ELSE MatchIntegerAt(t, i)

NoMatch == [found |-> FALSE, group |-> <<>>]

\* re.search(r"[-+]?\d*\.\d+|\d+", t): the match at the leftmost index that has
\* one.
re_search(t) ==
    IF \E i \in 1..Len(t) : MatchAt(t, i) # 0
    THEN LET i == CHOOSE x \in 1..Len(t) :
                      /\ MatchAt(t, x) # 0
                      /\ \A y \in 1..(x - 1) : MatchAt(t, y) = 0
         IN [found |-> TRUE, group |-> SubSeq(t, i, MatchAt(t, i) - 1)]
    ELSE NoMatch

RECURSIVE DecimalValue(_)
\* The number a string of digits writes.
DecimalValue(ds) ==
    IF ds = <<>> THEN 0
    ELSE 10 * DecimalValue(SubSeq(ds, 1, Len(ds) - 1)) + DigitValue(ds[Len(ds)])

RECURSIVE WithoutTrailingZeros(_)
\* The digits after the point that count.
WithoutTrailingZeros(ds) ==
    IF ds # <<>> /\ ds[Len(ds)] = "0"
    THEN WithoutTrailingZeros(SubSeq(ds, 1, Len(ds) - 1))
    ELSE ds

\* float(s) of a matched token s: sign, digits, and digits after a point.
float(s) ==
    LET body == IF s[1] \in Signs THEN Tail(s) ELSE s
        dots == {i \in 1..Len(body) : body[i] = "."}
        dot == IF dots = {} THEN Len(body) + 1 ELSE CHOOSE i \in dots : TRUE
        whole == SubSeq(body, 1, dot - 1)
        frac == WithoutTrailingZeros(SubSeq(body, dot + 1, Len(body)))
        magnitude == DecimalValue(whole \o frac)
    IN Float(IF s[1] = "-" THEN 0 - magnitude ELSE magnitude, Len(frac))

get_price(t) ==
    LET stripped == replace(replace(t, "$"), ",")
        match == re_search(stripped)
    IN IF match.found THEN float(match.group) ELSE Zero

GetPriceIdle ==
    /\ gpText = <<>>
    /\ gpResult = Zero
    /\ gpPc = "idle"

GetPriceInit ==
    /\ gpText = <<>>
    /\ gpResult = Zero
    /\ gpPc = "ready"

\* One call get_price(text).
GetPrice ==
    /\ gpPc = "ready"
    /\ \E t \in Texts :
        /\ gpText' = t
        /\ gpResult' = get_price(t)
    /\ gpPc' = "returned"

GetPriceAgain ==
    /\ gpPc = "returned"
    /\ gpText' = <<>>
    /\ gpResult' = Zero
    /\ gpPc' = "ready"

(***************************************************************************)
(* FrontierAgent.price                                                     *)
(***************************************************************************)
\* What one generate_content call can give: an error of the call, or a text.
PriceReplies ==
    {[kind |-> "call_error", text |-> <<>>]}
    \cup {[kind |-> "text", text |-> t] : t \in Texts}

NoPriceReply == [kind |-> "none", text |-> <<>>]

PricePending == [kind |-> "pending", value |-> Zero]
PriceRaised == [kind |-> "raised", value |-> Zero]
PriceReturned(v) == [kind |-> "float", value |-> v]

RECURSIVE lstrip(_)
lstrip(t) == IF t # <<>> /\ Head(t) = " " THEN lstrip(Tail(t)) ELSE t

RECURSIVE rstrip(_)
rstrip(t) ==
    IF t # <<>> /\ t[Len(t)] = " " THEN rstrip(SubSeq(t, 1, Len(t) - 1)) ELSE t

\* str.strip()
strip(t) == rstrip(lstrip(t))

\* The error of self.model.generate_content(...) is handled nowhere in price:
\* it leaves price.
ModelCallUncaught == PriceRaised

\* price from the model call to its return, given the model's answer.
PriceAfterPrompt(r) ==
    IF r.kind = "call_error"
    THEN ModelCallUncaught
    ELSE PriceReturned(get_price(strip(r.text)))

\* One call, and a second one when the first fails.
CallsIssuedRetry(r) == IF r.kind = "call_error" THEN 2 ELSE 1

\* The generate_content calls of one pass through price's model call.
CallsIssued(r) == 1

PriceIdle ==
    /\ pricePc = "idle"
    /\ priceSimilarsOk = FALSE
    /\ priceReply = NoPriceReply
    /\ priceResult = PricePending
    /\ priceCalls = 0

\* price, up to the model call: find_similars returns, or its error (of the
\* encoder or of the vector store) leaves price.
PriceFindSimilars ==
    /\ pricePc = "idle"
    /\ \E ok \in BOOLEAN :
        /\ priceSimilarsOk' = ok
        /\ IF ok
           THEN pricePc' = "prompted" /\ priceResult' = priceResult
           ELSE pricePc' = "done" /\ priceResult' = PriceRaised
    /\ UNCHANGED <<priceReply, priceCalls>>

\* price, from the model call on.
PriceGenerate ==
    /\ pricePc = "prompted"
    /\ \E r \in PriceReplies :
        /\ priceReply' = r
        /\ priceCalls' = priceCalls + CallsIssued(r)
        /\ priceResult' = PriceAfterPrompt(r)
    /\ pricePc' = "done"
    /\ UNCHANGED priceSimilarsOk

\* The caller invokes price again.
PriceAgain ==
    /\ pricePc = "done"
    /\ pricePc' = "idle"
    /\ priceSimilarsOk' = FALSE
    /\ priceReply' = NoPriceReply
    /\ priceResult' = PricePending
    /\ priceCalls' = 0

(***************************************************************************)
(* The specifications.                                                     *)
(***************************************************************************)
Init == ScanInit /\ FetchIdle /\ GetPriceIdle /\ PriceIdle

Next ==
    \/ ScanFetch /\ UNCHANGED <<fetchVars, gpVars, priceVars>>
    \/ ScanGenerate /\ UNCHANGED <<fetchVars, gpVars, priceVars>>
    \/ ScanAgain /\ UNCHANGED <<fetchVars, gpVars, priceVars>>

Spec == Init /\ [][Next]_vars

InitFetch == FetchInit /\ memory = <<>> /\ ScanIdle /\ GetPriceIdle /\ PriceIdle

NextFetch ==
    \/ FetchDeals /\ UNCHANGED <<scanVars, gpVars, priceVars>>
    \/ FetchAgain /\ UNCHANGED <<scanVars, gpVars, priceVars>>

SpecFetch == InitFetch /\ [][NextFetch]_vars

InitGetPrice == GetPriceInit /\ memory = <<>> /\ ScanIdle /\ FetchIdle /\ PriceIdle

NextGetPrice ==
    \/ GetPrice /\ UNCHANGED <<scanVars, fetchVars, priceVars>>
    \/ GetPriceAgain /\ UNCHANGED <<scanVars, fetchVars, priceVars>>

SpecGetPrice == InitGetPrice /\ [][NextGetPrice]_vars

InitPrice == PriceIdle /\ memory = <<>> /\ ScanIdle /\ FetchIdle /\ GetPriceIdle

NextPrice ==
    \/ PriceFindSimilars /\ UNCHANGED <<scanVars, fetchVars, gpVars>>
    \/ PriceGenerate /\ UNCHANGED <<scanVars, fetchVars, gpVars>>
    \/ PriceAgain /\ UNCHANGED <<scanVars, fetchVars, gpVars>>

SpecPrice == InitPrice /\ [][NextPrice]_vars

(***************************************************************************)
(* The claims.                                                             *)
(***************************************************************************)
\* res is src restricted to the indices in kept, in the order of src.
IsRestriction(res, src, kept) ==
    /\ Len(res) = Cardinality(kept)
    /\ \A k \in 1..Len(res) :
        \E i \in kept :
            /\ Cardinality({j \in kept : j <= i}) = k
            /\ res[k] = src[i]

UrlInMemory(mem, u) == \E j \in 1..Len(mem) : mem[j].deal.url = u

\* C1: fetch_deals returns exactly the scraped candidates whose url is the
\* url of no memory entry, in their original relative order: none whose url
\* is in memory is returned, none whose url is absent from memory is dropped.
C1_FetchReturnsExactlyTheNew ==
    fPc = "returned" =>
        IsRestriction(fResult, fScraped,
            {i \in 1..Len(fScraped) : ~UrlInMemory(fMemory, fScraped[i].url)})

\* The example of the specification: known urls {A, B}, scraped [A, C, B, D],
\* returned [C, D].
C1_Witness ==
    /\ fPc = "returned"
    /\ fMemory = <<Opportunity("A"), Opportunity("B")>>
    /\ fScraped = <<ScrapedDeal("A"), ScrapedDeal("C"), ScrapedDeal("B"), ScrapedDeal("D")>>
    /\ fResult = <<ScrapedDeal("C"), ScrapedDeal("D")>>

\* C2: every deal of a DealSelection that scan returns has price > 0, and the
\* returned deals are exactly the deals of the parsed model selection with a
\* strictly positive price, in their original order.
C2_OnlyPositivePrices ==
    scanResult.kind = "DealSelection" =>
        /\ \A k \in 1..Len(scanResult.deals) : scanResult.deals[k].price > 0
        /\ IsRestriction(scanResult.deals, reply.deals,
               {i \in 1..Len(reply.deals) : reply.deals[i].price > 0})

\* A selection with a positive, a zero and a negative price, of which scan
\* returned some and removed some.
C2_Witness ==
    /\ scanPc = "done"
    /\ scanResult.kind = "DealSelection"
    /\ \E i, j, k \in 1..Len(reply.deals) :
        /\ reply.deals[i].price > 0
        /\ reply.deals[j].price = 0
        /\ reply.deals[k].price < 0
    /\ Len(scanResult.deals) >= 2
    /\ Len(scanResult.deals) < Len(reply.deals)

AllScrapedKnown == \A i \in 1..Len(scraped) : UrlInMemory(memory, scraped[i].url)

\* C4: a curation pass with no new candidates returns None and issues no
\* model call; a model call is issued only after the fetch gave at least one
\* new candidate.
C4_NoCallWithoutNewDeals ==
    /\ (scanPc # "idle" /\ AllScrapedKnown) =>
           (scanPc = "done" /\ scanResult = ResultNone /\ modelCalls = 0)
    /\ modelCalls > 0 => (newDeals # <<>> /\ ~AllScrapedKnown)

\* Candidates were scraped, every one of them already in memory, and the pass
\* ended with None.
C4_Witness ==
    /\ scanPc = "done"
    /\ scraped # <<>>
    /\ AllScrapedKnown
    /\ scanResult = ResultNone
    /\ modelCalls = 0

\* C5: in scan an error of the model call, a JSON parse error of the reply and
\* a schema-validation error of the parsed reply never reach the caller: each
\* ends the pass with None, the same result whatever the cause.
C5_ErrorsCollapseToNone ==
    /\ scanResult.kind # "raised"
    /\ (scanPc = "done" /\ reply.kind \in {"call_error", "bad_json", "bad_schema"})
           => scanResult = ResultNone

\* The reply was JSON of the wrong shape, and the pass ended with None.
C5_Witness ==
    /\ scanPc = "done"
    /\ reply.kind = "bad_schema"
    /\ modelCalls = 1
    /\ scanResult = ResultNone

\* C6, as claimed: every invocation of price issues exactly one model call; a
\* failing call is not retried and its error reaches the caller, so that no
\* PriceEstimate is returned.
C6_ExactlyOneCallPerInvocation ==
    pricePc = "done" =>
        /\ priceCalls = 1
        /\ priceReply.kind = "call_error" => priceResult = PriceRaised

\* C6, amended: no invocation of price issues more than one model call, and
\* one in which find_similars returns issues exactly one; a failing call is
\* not retried and its error reaches the caller, so that no PriceEstimate is
\* returned.
C6_OneCallAfterRetrieval ==
    /\ priceCalls <= 1
    /\ pricePc = "done" =>
        /\ priceCalls = (IF priceSimilarsOk THEN 1 ELSE 0)
        /\ priceReply.kind = "call_error" => priceResult = PriceRaised

\* The model call of an invocation failed: one call, and the error left price.
C6_Witness ==
    /\ pricePc = "done"
    /\ priceSimilarsOk
    /\ priceReply.kind = "call_error"
    /\ priceCalls = 1
    /\ priceResult = PriceRaised

\* [-+]?(\d*\.\d+|\d+) matched at index i, the sign belonging to the decimal
\* and to the integer alike: the index after the match, 0 for none.
MatchSignedAt(t, i) ==
    LET j == IF t[i] \in Signs THEN i + 1 ELSE i
    IN IF MatchDecimalAt(t, i) # 0 THEN MatchDecimalAt(t, i)
       ELSE IF j <= Len(t) THEN MatchIntegerAt(t, j)
       ELSE 0

\* The leftmost token of t that is a signed or unsigned decimal or integer.
FirstSignedNumber(t) ==
    IF \E i \in 1..Len(t) : MatchSignedAt(t, i) # 0
    THEN LET i == CHOOSE x \in 1..Len(t) :
                      /\ MatchSignedAt(t, x) # 0
                      /\ \A y \in 1..(x - 1) : MatchSignedAt(t, y) = 0
         IN [found |-> TRUE, group |-> SubSeq(t, i, MatchSignedAt(t, i) - 1)]
    ELSE NoMatch

\* C7: get_price removes every '$' and ',' and returns the value of the
\* leftmost token that is a signed or unsigned decimal or integer number, its
\* sign included when it has one, and 0.0 when there is no such token.
C7_FirstNumberWithItsSign ==
    gpPc = "returned" =>
        LET token == FirstSignedNumber(replace(replace(gpText, "$"), ","))
        IN gpResult = (IF token.found THEN float(token.group) ELSE Zero)

\* C8: every value that price returns is a non-negative number, and it is 0.0
\* when no numeric token can be parsed from the reply.
C8_PriceEstimateNonNegative ==
    (pricePc = "done" /\ priceResult.kind = "float") =>
        /\ priceResult.value.num >= 0
        /\ (\A i \in 1..Len(priceReply.text) : priceReply.text[i] \notin Digits)
               => priceResult.value = Zero

\* C9: a DealSelection that scan returns holds at least one deal; a pass in
\* which no deal survives returns None.
C9_SelectionNeverEmpty ==
    scanResult.kind = "DealSelection" => Len(scanResult.deals) >= 1

\* C10: every deal of a DealSelection that scan returns carries the url of a
\* new candidate that fetch_deals returned in the same pass, so none carries
\* a url that is already in memory.
C10_UrlsAreNewCandidates ==
    scanResult.kind = "DealSelection" =>
        \A k \in 1..Len(scanResult.deals) :
            /\ \E i \in 1..Len(newDeals) : newDeals[i].url = scanResult.deals[k].url
            /\ ~UrlInMemory(memory, scanResult.deals[k].url)

====
